---- MODULE Spec2Model ----
(***************************************************************************)
(* asus-numpad: the tap state machine of src/main.rs (Numpad::process),    *)
(* its toggle operation and the TimeVal subtraction it relies on.          *)
(*                                                                         *)
(* The layout oracle (numpad_layout), the key emitter (dummy_keyboard) and *)
(* the illumination controller (touchpad_i2c) are modules whose code is    *)
(* not part of src/main.rs; they are modelled from their contract: a small *)
(* board on which the toggle box and the key regions partly overlap.       *)
(***************************************************************************)
EXTENDS Integers, Sequences, FiniteSets, TLC

(***************************************************************************)
(* Bounds of the model.                                                    *)
(***************************************************************************)
\* whole seconds carried by event timestamps range over 0..MaxSec
MaxSec == 1
\* raw X samples range over 0..MaxX, raw Y samples over 0..MaxY
MaxX == 2
MaxY == 1

\* sub-second components the event stream delivers (all < USEC_PER_SEC)
UsecSamples == {0, 749999, 750000}
\* sub-second components of the operands of the subtraction checked on its own
UsecOperands == {0, 1, 100000, 900000, 999999}

(***************************************************************************)
(* Program constants.                                                      *)
(***************************************************************************)
USEC_PER_SEC == 1000000
Zero == 0
Low == 31
Half == 24
Full == 1

None == "None"

TimeVal == [tv_sec : 0..MaxSec, tv_usec : UsecSamples]
Operand == [tv_sec : 0..MaxSec, tv_usec : UsecOperands]
HOLD_DURATION == [tv_sec |-> 0, tv_usec |-> 750000]

\* derived ordering of TimeVal: tv_sec first, then tv_usec
TvGe(a, b) ==
    \/ a.tv_sec > b.tv_sec
    \/ a.tv_sec = b.tv_sec /\ a.tv_usec >= b.tv_usec

\* `x as u32` of an i64: x itself from 0 up to 2^31 - 1, the values that occur
\* here; a negative x wraps to x + 2^32
AsU32(x) == IF x >= 0 THEN x ELSE ((x + 2147483647) + 2147483647) + 2

\* mutant: the borrow branch forgets to take the second away
elapsed_since_NoBorrow(self, other) ==
    IF self.tv_usec >= other.tv_usec
    THEN [tv_sec  |-> self.tv_sec - other.tv_sec,
          tv_usec |-> AsU32(self.tv_usec - other.tv_usec)]
    ELSE [tv_sec  |-> self.tv_sec - other.tv_sec,
          tv_usec |-> AsU32(AsU32(self.tv_usec) + USEC_PER_SEC
                            - AsU32(other.tv_usec))]

elapsed_since(self, other) ==
    IF self.tv_usec >= other.tv_usec
    THEN [tv_sec  |-> self.tv_sec - other.tv_sec,
          tv_usec |-> AsU32(self.tv_usec - other.tv_usec)]
    ELSE [tv_sec  |-> self.tv_sec - other.tv_sec - 1,
          tv_usec |-> AsU32(AsU32(self.tv_usec) + USEC_PER_SEC
                            - AsU32(other.tv_usec))]

(***************************************************************************)
(* `ev.value as f32`: exact below 2^24, round-to-nearest-even above.       *)
(***************************************************************************)
RECURSIVE F32Ulp(_)
F32Ulp(n) == IF n < 16777216 THEN 1 ELSE 2 * F32Ulp(n \div 2)

F32Mag(n) ==
    LET ulp  == F32Ulp(n)
        q    == n \div ulp
        r    == n % ulp
    IN  IF 2 * r > ulp \/ (2 * r = ulp /\ q % 2 = 1)
        THEN (q + 1) * ulp
        ELSE q * ulp

as_f32(v) == IF v < 0 THEN 0 - F32Mag(0 - v) ELSE F32Mag(v)

(***************************************************************************)
(* Layout oracle, on a (MaxX+1) x (MaxY+1) board:                          *)
(*                                                                         *)
(*          x=0          x=1              x=2..                            *)
(*   y=0    -            box, BACKSPACE   box                              *)
(*   y=1..  KP7          KEY_5 (Shift+5)  -                                *)
(***************************************************************************)
in_numpad_bbox(x, y) == x >= 1 /\ y = 0

get_key(x, y) ==
    IF x = 1 /\ y = 0 THEN "KEY_BACKSPACE"
    ELSE IF x = 0 /\ y >= 1 THEN "KEY_KP7"
    ELSE IF x = 1 /\ y >= 1 THEN "KEY_5"
    ELSE None

needs_multikey(key) == key = "KEY_5"

multikeys(key) ==
    IF key = "KEY_5" THEN <<"KEY_LEFTSHIFT", "KEY_5">> ELSE <<key>>

SeqSet(s) == {s[i] : i \in 1..Len(s)}

(***************************************************************************)
(* State.                                                                  *)
(***************************************************************************)
VARIABLES
    state,          \* TouchpadState
    dummy_kb,       \* key codes the emitter currently holds down
    touchpad_i2c,   \* <<level>> last written to the bus, <<>> before any
    grabbed,        \* whether the raw device is grabbed
    pc,             \* "running" | "panicked"
    clock,          \* timestamp of the latest event of the stream
    ev,             \* what the latest read returned: [kind, value]
    cmds,           \* commands issued while handling the latest read
    touch,          \* history of the current (or latest) physical touch
    everToggled,    \* history: toggle_numlock has run at least once
    readFailed,     \* history: some read of the stream has failed
    calc            \* operands and result of a TimeVal subtraction

vars == <<state, dummy_kb, touchpad_i2c, grabbed, pc, clock, ev, cmds,
          touch, everToggled, readFailed, calc>>

machine == <<state, dummy_kb, touchpad_i2c, grabbed, pc, clock, ev, cmds,
             touch, everToggled, readFailed>>

TouchpadState_default ==
    [posx |-> 0, posy |-> 0,
     finger_state |-> "Lifted",
     numlock |-> FALSE,
     cur_key |-> None,
     tap_started_at |-> [tv_sec |-> 0, tv_usec |-> 0],
     tapped_outside_numlock_bbox |-> FALSE,
     brightness |-> Half]

NoTouch ==
    [inBoxAtBegin |-> FALSE, numlockAtBegin |-> FALSE, keyAtBegin |-> None,
     stayedInBox |-> FALSE, quiet |-> FALSE, sampled |-> FALSE,
     tickedOutside |-> FALSE,
     toggles |-> 0, downs |-> 0, ups |-> 0,
     downCodes |-> <<>>, upCodes |-> <<>>]

NoCalc == [later |-> [tv_sec |-> 0, tv_usec |-> 0],
           earlier |-> [tv_sec |-> 0, tv_usec |-> 0],
           result |-> [tv_sec |-> 0, tv_usec |-> 0],
           done |-> FALSE]

\* the state Numpad::new leaves behind, before process() reads anything
MachineInit ==
    /\ state = TouchpadState_default
    /\ dummy_kb = {}
    /\ touchpad_i2c = <<>>
    /\ grabbed = FALSE
    /\ pc = "running"
    /\ clock = [tv_sec |-> 0, tv_usec |-> 0]
    /\ ev = [kind |-> "None", value |-> 0]
    /\ cmds = <<>>
    /\ touch = NoTouch
    /\ everToggled = FALSE
    /\ readFailed = FALSE

Init == MachineInit /\ calc = NoCalc

(***************************************************************************)
(* The world a handler works on: the fields of Numpad it can change, and   *)
(* the commands it has issued so far.                                      *)
(***************************************************************************)
World ==
    [state |-> state, dummy_kb |-> dummy_kb, touchpad_i2c |-> touchpad_i2c,
     grabbed |-> grabbed, pc |-> pc, cmds |-> <<>>]

Issue(w, op, arg) == [w EXCEPT !.cmds = Append(@, [op |-> op, arg |-> arg])]

\* DummyKeyboard
keydown(w, key) ==
    [Issue(w, "keydown", <<key>>) EXCEPT !.dummy_kb = @ \cup {key}]

keyup(w, key) ==
    [Issue(w, "keyup", <<key>>) EXCEPT !.dummy_kb = @ \ {key}]

multi_keydown(w, keys) ==
    [Issue(w, "multi_keydown", keys) EXCEPT !.dummy_kb = @ \cup SeqSet(keys)]

multi_keyup(w, keys) ==
    [Issue(w, "multi_keyup", keys) EXCEPT !.dummy_kb = @ \ SeqSet(keys)]

\* TouchpadI2C
set_brightness(w, level) ==
    [Issue(w, "set_brightness", level) EXCEPT !.touchpad_i2c = <<level>>]

\* Device::grab(mode).expect(..): ok is whether the device accepts it
evdev_grab(w, mode, ok) ==
    IF ok
    THEN [Issue(w, "grab", mode) EXCEPT !.grabbed = mode]
    ELSE [Issue(w, "grab", mode) EXCEPT !.pc = "panicked"]

TouchpadState_toggle_numlock(w) ==
    [w EXCEPT !.state.numlock = ~w.state.numlock]

\* mutant: disabling turns the light off but keeps the grab
toggle_numlock_NoUngrab(w, ok) ==
    LET w1 == TouchpadState_toggle_numlock(w)
    IN  IF w1.state.numlock
        THEN evdev_grab(set_brightness(w1, w1.state.brightness), TRUE, ok)
        ELSE set_brightness(w1, Zero)

toggle_numlock(w, ok) ==
    LET w1 == TouchpadState_toggle_numlock(w)
    IN  IF w1.state.numlock
        THEN evdev_grab(set_brightness(w1, w1.state.brightness), TRUE, ok)
        ELSE evdev_grab(set_brightness(w1, Zero), FALSE, ok)

(***************************************************************************)
(* The arms of the match on ev.event_code.                                 *)
(***************************************************************************)
OnPositionX(w, value) == [w EXCEPT !.state.posx = as_f32(value)]

OnPositionY(w, value) == [w EXCEPT !.state.posy = as_f32(value)]

\* mutant: the release never uses multi_keyup
OnFingerUp_SingleRelease(w) ==
    LET w1  == [w EXCEPT !.state.finger_state = "Lifted"]
        key == w1.state.cur_key
    IN  IF key # None
        THEN [keyup(w1, key) EXCEPT !.state.cur_key = None]
        ELSE w1

\* mutant: the release leaves cur_key set
OnFingerUp_KeepsKey(w) ==
    LET w1  == [w EXCEPT !.state.finger_state = "Lifted"]
        key == w1.state.cur_key
    IN  IF key # None
        THEN IF needs_multikey(key)
             THEN multi_keyup(w1, multikeys(key))
             ELSE keyup(w1, key)
        ELSE w1

\* BTN_TOOL_FINGER, value 0
OnFingerUp(w) ==
    LET w1  == [w EXCEPT !.state.finger_state = "Lifted"]
        key == w1.state.cur_key
    IN  IF key # None
        THEN LET w2 == IF needs_multikey(key)
                       THEN multi_keyup(w1, multikeys(key))
                       ELSE keyup(w1, key)
             IN  [w2 EXCEPT !.state.cur_key = None]
        ELSE w1

\* mutant: a contact-begin inside the box toggles at once
OnFingerDown_TogglesAtOnce(w, time) ==
    LET w1 == IF w.state.finger_state = "Lifted"
              THEN [w EXCEPT !.state.finger_state = "Touching",
                             !.state.tap_started_at = time,
                             !.state.tapped_outside_numlock_bbox = FALSE]
              ELSE w
    IN  IF in_numpad_bbox(w1.state.posx, w1.state.posy)
        THEN [TouchpadState_toggle_numlock(w1) EXCEPT
                !.state.finger_state = "Tapping"]
        ELSE [w1 EXCEPT !.state.tapped_outside_numlock_bbox = TRUE]

\* mutant: a contact-begin outside the box does not set the suppression flag
OnFingerDown_NoSuppress(w, time) ==
    LET w1 == IF w.state.finger_state = "Lifted"
              THEN [w EXCEPT !.state.finger_state = "Touching",
                             !.state.tap_started_at = time,
                             !.state.tapped_outside_numlock_bbox = FALSE]
              ELSE w
    IN  IF in_numpad_bbox(w1.state.posx, w1.state.posy)
        THEN [w1 EXCEPT !.state.finger_state = "Tapping"]
        ELSE w1

\* mutant: with keypad mode on, the box does not claim the touch
OnFingerDown_KeyFirst(w, time) ==
    LET w1 == IF w.state.finger_state = "Lifted"
              THEN [w EXCEPT !.state.finger_state = "Touching",
                             !.state.tap_started_at = time,
                             !.state.tapped_outside_numlock_bbox = FALSE]
              ELSE w
    IN  IF in_numpad_bbox(w1.state.posx, w1.state.posy)
        THEN IF w1.state.numlock
             THEN w1
             ELSE [w1 EXCEPT !.state.finger_state = "Tapping"]
        ELSE [w1 EXCEPT !.state.tapped_outside_numlock_bbox = TRUE]

\* mutant: every contact-begin starts a tap, whatever FingerState is
OnFingerDown_Restarts(w, time) ==
    LET w1 == [w EXCEPT !.state.finger_state = "Touching",
                        !.state.tap_started_at = time,
                        !.state.tapped_outside_numlock_bbox = FALSE]
    IN  IF in_numpad_bbox(w1.state.posx, w1.state.posy)
        THEN [w1 EXCEPT !.state.finger_state = "Tapping"]
        ELSE [w1 EXCEPT !.state.tapped_outside_numlock_bbox = TRUE]

\* BTN_TOOL_FINGER, value 1
OnFingerDown(w, time) ==
    LET w1 == IF w.state.finger_state = "Lifted"
              THEN [w EXCEPT !.state.finger_state = "Touching",
                             !.state.tap_started_at = time,
                             !.state.tapped_outside_numlock_bbox = FALSE]
              ELSE w
    IN  IF in_numpad_bbox(w1.state.posx, w1.state.posy)
        THEN [w1 EXCEPT !.state.finger_state = "Tapping"]
        ELSE [w1 EXCEPT !.state.tapped_outside_numlock_bbox = TRUE]

\* mutant: the hold has to be strictly longer than HOLD_DURATION
HoldElapsed_Strict(time, start) ==
    ~TvGe(HOLD_DURATION, elapsed_since(time, start))

\* ev.time.elapsed_since(self.state.tap_started_at) >= HOLD_DURATION
HoldElapsed(time, start) ==
    TvGe(elapsed_since(time, start), HOLD_DURATION)

\* mutant: a tick outside the box leaves the suppression flag alone
OnTimestamp_NoSuppressOutside(w, time, ok) ==
    IF /\ w.state.finger_state = "Tapping"
       /\ ~w.state.tapped_outside_numlock_bbox
       /\ in_numpad_bbox(w.state.posx, w.state.posy)
       /\ HoldElapsed(time, w.state.tap_started_at)
    THEN LET w1 == toggle_numlock(w, ok)
         IN  IF w1.pc = "panicked"
             THEN w1
             ELSE [w1 EXCEPT !.state.tapped_outside_numlock_bbox = TRUE]
    ELSE w

\* mutant: the toggle does not set the suppression flag
OnTimestamp_NoSuppressAfterToggle(w, time, ok) ==
    IF /\ w.state.finger_state = "Tapping"
       /\ ~w.state.tapped_outside_numlock_bbox
    THEN IF in_numpad_bbox(w.state.posx, w.state.posy)
         THEN IF HoldElapsed(time, w.state.tap_started_at)
              THEN toggle_numlock(w, ok)
              ELSE w
         ELSE [w EXCEPT !.state.tapped_outside_numlock_bbox = TRUE]
    ELSE w

\* mutant: the tick does not look at the coordinate
OnTimestamp_NoBoxCheck(w, time, ok) ==
    IF /\ w.state.finger_state = "Tapping"
       /\ ~w.state.tapped_outside_numlock_bbox
       /\ HoldElapsed(time, w.state.tap_started_at)
    THEN LET w1 == toggle_numlock(w, ok)
         IN  IF w1.pc = "panicked"
             THEN w1
             ELSE [w1 EXCEPT !.state.tapped_outside_numlock_bbox = TRUE]
    ELSE w

\* mutant: the tick does not look at the suppression flag
OnTimestamp_IgnoresFlag(w, time, ok) ==
    IF w.state.finger_state = "Tapping"
    THEN IF in_numpad_bbox(w.state.posx, w.state.posy)
         THEN IF HoldElapsed(time, w.state.tap_started_at)
              THEN LET w1 == toggle_numlock(w, ok)
                   IN  IF w1.pc = "panicked"
                       THEN w1
                       ELSE [w1 EXCEPT
                               !.state.tapped_outside_numlock_bbox = TRUE]
              ELSE w
         ELSE [w EXCEPT !.state.tapped_outside_numlock_bbox = TRUE]
    ELSE w

\* mutant: after the toggle FingerState goes back to Touching
OnTimestamp_BackToTouching(w, time, ok) ==
    IF /\ w.state.finger_state = "Tapping"
       /\ ~w.state.tapped_outside_numlock_bbox
    THEN IF in_numpad_bbox(w.state.posx, w.state.posy)
         THEN IF HoldElapsed(time, w.state.tap_started_at)
              THEN LET w1 == toggle_numlock(w, ok)
                   IN  IF w1.pc = "panicked"
                       THEN w1
                       ELSE [w1 EXCEPT
                               !.state.tapped_outside_numlock_bbox = TRUE,
                               !.state.finger_state = "Touching"]
              ELSE w
         ELSE [w EXCEPT !.state.tapped_outside_numlock_bbox = TRUE]
    ELSE w

\* MSC_TIMESTAMP
OnTimestamp(w, time, ok) ==
    IF /\ w.state.finger_state = "Tapping"
       /\ ~w.state.tapped_outside_numlock_bbox
    THEN IF in_numpad_bbox(w.state.posx, w.state.posy)
         THEN IF HoldElapsed(time, w.state.tap_started_at)
              THEN LET w1 == toggle_numlock(w, ok)
                   IN  IF w1.pc = "panicked"
                       THEN w1
                       ELSE [w1 EXCEPT
                               !.state.tapped_outside_numlock_bbox = TRUE]
              ELSE w
         ELSE [w EXCEPT !.state.tapped_outside_numlock_bbox = TRUE]
    ELSE w

\* mutant: a resolved key leaves FingerState at Touching
PostProcess_StayTouching(w) ==
    IF /\ w.pc = "running"
       /\ w.state.numlock
       /\ w.state.finger_state = "Touching"
    THEN LET key == get_key(w.state.posx, w.state.posy)
             w1  == [w EXCEPT !.state.cur_key = key]
         IN  IF key # None
             THEN IF needs_multikey(key)
                  THEN multi_keydown(w1, multikeys(key))
                  ELSE keydown(w1, key)
             ELSE w1
    ELSE w

\* mutant: keys are resolved in pointing mode too
PostProcess_NoModeCheck(w) ==
    IF /\ w.pc = "running"
       /\ w.state.finger_state = "Touching"
    THEN LET key == get_key(w.state.posx, w.state.posy)
             w1  == [w EXCEPT !.state.cur_key = key]
         IN  IF key # None
             THEN LET w2 == [w1 EXCEPT !.state.finger_state = "Tapping"]
                  IN  IF needs_multikey(key)
                      THEN multi_keydown(w2, multikeys(key))
                      ELSE keydown(w2, key)
             ELSE w1
    ELSE w

\* the code after the match, reached by every arm that does not `continue`
PostProcess(w) ==
    IF /\ w.pc = "running"
       /\ w.state.numlock
       /\ w.state.finger_state = "Touching"
    THEN LET key == get_key(w.state.posx, w.state.posy)
             w1  == [w EXCEPT !.state.cur_key = key]
         IN  IF key # None
             THEN LET w2 == [w1 EXCEPT !.state.finger_state = "Tapping"]
                  IN  IF needs_multikey(key)
                      THEN multi_keydown(w2, multikeys(key))
                      ELSE keydown(w2, key)
             ELSE w1
    ELSE w

(***************************************************************************)
(* History of the physical touch, kept beside the program's state.         *)
(***************************************************************************)
CountOps(cs, ops) == Cardinality({i \in 1..Len(cs) : cs[i].op \in ops})

\* the codes carried by the last command of cs whose op is in ops
CodesIn(cs, ops, default) ==
    LET hits == {i \in 1..Len(cs) : cs[i].op \in ops}
    IN  IF hits = {}
        THEN default
        ELSE cs[CHOOSE i \in hits : \A j \in hits : j <= i].arg

DownOps == {"keydown", "multi_keydown"}
UpOps == {"keyup", "multi_keyup"}

TouchAfter(kind, value, w) ==
    LET during == state.finger_state # "Lifted"
        begins == kind = "Finger" /\ value = 1 /\ ~during
        inbox  == in_numpad_bbox(w.state.posx, w.state.posy)
        base   == IF begins
                  THEN [inBoxAtBegin |-> inbox,
                        numlockAtBegin |-> state.numlock,
                        keyAtBegin |-> get_key(state.posx, state.posy),
                        stayedInBox |-> TRUE, quiet |-> TRUE,
                        sampled |-> FALSE, tickedOutside |-> FALSE,
                        toggles |-> 0, downs |-> 0, ups |-> 0,
                        downCodes |-> <<>>, upCodes |-> <<>>]
                  ELSE IF during THEN touch ELSE NoTouch
        same   == /\ during
                  /\ kind \in {"PosX", "PosY"}
                  /\ w.state.posx = state.posx
                  /\ w.state.posy = state.posy
        ends   == during /\ kind = "Finger" /\ value = 0
    IN  [base EXCEPT
           !.stayedInBox = @ /\ inbox,
           !.quiet = @ /\ (begins \/ same \/ ends),
           !.sampled = touch.quiet /\ (same \/ ends) /\ (@ \/ same),
           !.tickedOutside = @ \/ (kind = "Timestamp" /\ ~inbox),
           !.toggles = @ + CountOps(w.cmds, {"grab"}),
           !.downs = @ + CountOps(w.cmds, DownOps),
           !.ups = @ + CountOps(w.cmds, UpOps),
           !.downCodes = CodesIn(w.cmds, DownOps, @),
           !.upCodes = CodesIn(w.cmds, UpOps, @)]

\* one iteration of the loop that read Ok(ev) at time t and left world w
Commit(kind, value, t, w) ==
    /\ state' = w.state
    /\ dummy_kb' = w.dummy_kb
    /\ touchpad_i2c' = w.touchpad_i2c
    /\ grabbed' = w.grabbed
    /\ pc' = w.pc
    /\ cmds' = w.cmds
    /\ clock' = t
    /\ ev' = [kind |-> kind, value |-> value]
    /\ touch' = TouchAfter(kind, value, w)
    /\ everToggled' = (everToggled \/ CountOps(w.cmds, {"grab"}) > 0)
    /\ UNCHANGED <<readFailed, calc>>

(***************************************************************************)
(* Actions: one per outcome of next_event.                                 *)
(***************************************************************************)
\* next_event returned Ok(ev) with ev.time = t; the stream is ordered by time
Reading(t) == pc = "running" /\ t \in TimeVal /\ TvGe(t, clock)

\* the same for the kinds whose arm never reads ev.time: they are delivered
\* with the timestamp of the event before them
ReadingUntimed == Reading(clock)

PositionX(value) ==
    /\ ReadingUntimed
    /\ Commit("PosX", value, clock, OnPositionX(World, value))

PositionY(value) ==
    /\ ReadingUntimed
    /\ Commit("PosY", value, clock, OnPositionY(World, value))

FingerUp ==
    /\ ReadingUntimed
    /\ Commit("Finger", 0, clock, PostProcess(OnFingerUp(World)))

\* mutant: the contact-begin arm ends in `continue`
FingerDown_Continue(t) ==
    /\ Reading(t)
    /\ Commit("Finger", 1, t, OnFingerDown(World, t))

FingerDown(t) ==
    /\ Reading(t)
    /\ Commit("Finger", 1, t, PostProcess(OnFingerDown(World, t)))

\* mutant: the tick arm ends in `continue`
Timestamp_Continue(t, ok) ==
    /\ Reading(t)
    /\ Commit("Timestamp", 0, t, OnTimestamp(World, t, ok))

Timestamp(t, ok) ==
    /\ Reading(t)
    /\ Commit("Timestamp", 0, t, PostProcess(OnTimestamp(World, t, ok)))

\* mutant: the catch-all arm resets FingerState
OtherEvent_LiftsFinger ==
    /\ ReadingUntimed
    /\ Commit("Other", 0, clock,
              PostProcess([World EXCEPT !.state.finger_state = "Lifted"]))

OtherEvent ==
    /\ ReadingUntimed
    /\ Commit("Other", 0, clock, PostProcess(World))

\* mutant: Err breaks out of the loop
ReadError_Fatal ==
    /\ pc = "running"
    /\ pc' = "stopped"
    /\ ev' = [kind |-> "ReadError", value |-> 0]
    /\ cmds' = <<>>
    /\ readFailed' = TRUE
    /\ UNCHANGED <<state, dummy_kb, touchpad_i2c, grabbed, clock,
                   touch, everToggled, calc>>

\* next_event returned Err: the `if let Ok(ev)` body is skipped
ReadError ==
    /\ pc = "running"
    /\ ev' = [kind |-> "ReadError", value |-> 0]
    /\ cmds' = <<>>
    /\ readFailed' = TRUE
    /\ UNCHANGED <<state, dummy_kb, touchpad_i2c, grabbed, pc, clock,
                   touch, everToggled, calc>>

Next ==
    \/ \E v \in 0..MaxX : PositionX(v)
    \/ \E v \in 0..MaxY : PositionY(v)
    \/ FingerUp
    \/ \E t \in TimeVal : FingerDown(t)
    \/ \E t \in TimeVal, ok \in BOOLEAN : Timestamp(t, ok)
    \/ OtherEvent
    \/ ReadError

Spec == Init /\ [][Next]_vars

(***************************************************************************)
(* TimeVal subtraction on its own: all pairs of timestamps.                *)
(***************************************************************************)
InitElapsed ==
    /\ MachineInit
    /\ \E a \in Operand, b \in Operand :
          calc = [NoCalc EXCEPT !.later = a, !.earlier = b]

ApplyElapsed ==
    /\ ~calc.done
    /\ calc' = [calc EXCEPT !.result = elapsed_since(calc.later, calc.earlier),
                            !.done = TRUE]
    /\ UNCHANGED machine

NextElapsed == ApplyElapsed

SpecElapsed == InitElapsed /\ [][NextElapsed]_vars

(***************************************************************************)
(* Vocabulary of the properties.                                           *)
(***************************************************************************)
Micros(t) == t.tv_sec * USEC_PER_SEC + t.tv_usec

\* the hold duration, in microseconds
HoldMicros == 750000

\* microseconds from the start of the tap to the latest event
SinceTapStart == Micros(clock) - Micros(state.tap_started_at)

InBox == in_numpad_bbox(state.posx, state.posy)

\* the codes the emitter is given for a key
CodesOf(key) == IF needs_multikey(key) THEN multikeys(key) ELSE <<key>>

Touched == state.finger_state # "Lifted"

IsTick == ev.kind = "Timestamp"
IsContactEnd == ev.kind = "Finger" /\ ev.value = 0
IsContactBegin == ev.kind = "Finger" /\ ev.value = 1

KeyCmds(cs) == {i \in 1..Len(cs) : cs[i].op \in DownOps \cup UpOps}

Toggled(cs) == \E i \in 1..Len(cs) : cs[i].op = "grab"

(***************************************************************************)
(* C1. Hold-to-toggle threshold.  During a touch that began (from Lifted)  *)
(* inside the toggle box with keypad mode off and has stayed inside it: a  *)
(* tick earlier than 750 ms after tap-start does not toggle; the first     *)
(* tick at 750 ms or later does, and flips the keypad-mode flag; no        *)
(* key-down is emitted before the flip.                                    *)
(***************************************************************************)
HeldInBox ==
    /\ Touched
    /\ touch.inBoxAtBegin
    /\ ~touch.numlockAtBegin
    /\ touch.stayedInBox

C1_TickStep ==
    (HeldInBox /\ IsTick') =>
        IF Micros(clock') - Micros(state.tap_started_at) < HoldMicros
        THEN /\ state'.numlock = state.numlock
             /\ ~Toggled(cmds')
        ELSE touch.toggles = 0 =>
                /\ state'.numlock = ~state.numlock
                /\ Toggled(cmds')
                /\ touch'.toggles = 1

C1_HoldThreshold ==
    /\ []((HeldInBox /\ touch.toggles = 0) => touch.downs = 0)
    /\ [][C1_TickStep]_vars

\* a tick exactly 750 ms after tap-start has just toggled keypad mode on
C1_Witness ==
    /\ HeldInBox /\ IsTick
    /\ SinceTapStart = HoldMicros
    /\ touch.toggles = 1 /\ state.numlock /\ Toggled(cmds)

(***************************************************************************)
(* C2. With keypad mode on, contact-begin (from Lifted) over a mapped key, *)
(* then any number of position samples at the same coordinate, then        *)
(* contact-end: exactly one key-down and one key-up, both for that key.    *)
(* As stated it covers every mapped key (C2_AnyMappedKey); it holds for    *)
(* the mapped keys outside the toggle box (C2_KeyOutsideBox).              *)
(***************************************************************************)
QuietTapEnded ==
    /\ IsContactEnd
    /\ touch.quiet
    /\ touch.numlockAtBegin
    /\ touch.keyAtBegin # None

OnePairFor(key) ==
    /\ touch.downs = 1
    /\ touch.ups = 1
    /\ touch.downCodes = CodesOf(key)
    /\ touch.upCodes = CodesOf(key)

C2_AnyMappedKey == QuietTapEnded => OnePairFor(touch.keyAtBegin)

C2_KeyOutsideBox ==
    (QuietTapEnded /\ ~touch.inBoxAtBegin) => OnePairFor(touch.keyAtBegin)

\* such a tap, with position samples in it, has just ended on the composite key
C2_Witness ==
    /\ QuietTapEnded /\ ~touch.inBoxAtBegin /\ touch.sampled
    /\ touch.keyAtBegin = "KEY_5"
    /\ OnePairFor("KEY_5")

(***************************************************************************)
(* C3. Key events alternate: a key-up is emitted only for the key whose    *)
(* key-down is outstanding, no key-down is emitted while one is            *)
(* outstanding, and a physical touch emits at most one pair.               *)
(***************************************************************************)
C3_KeyStep ==
    /\ Cardinality(KeyCmds(cmds')) <= 1
    /\ \A i \in KeyCmds(cmds') :
          IF cmds'[i].op \in DownOps
          THEN dummy_kb = {}
          ELSE dummy_kb # {} /\ SeqSet(cmds'[i].arg) = dummy_kb
                             /\ cmds'[i].arg = touch.downCodes

C3_Alternate ==
    /\ [](touch.downs <= 1 /\ touch.ups <= touch.downs)
    /\ [][cmds' # <<>> => C3_KeyStep]_vars

\* the touch that pressed KP7 has just released it
C3_Witness ==
    /\ IsContactEnd
    /\ cmds = <<[op |-> "keyup", arg |-> <<"KEY_KP7">>]>>
    /\ touch.downs = 1 /\ touch.ups = 1
    /\ touch.downCodes = <<"KEY_KP7">>

(***************************************************************************)
(* C4. Toggle keeps mode, illumination and grab in step: enabling issues   *)
(* set_brightness(configured level) and grab, disabling issues             *)
(* set_brightness(Zero) and ungrab; while the loop runs the device is      *)
(* grabbed iff keypad mode is on, and after any toggle the light is Zero   *)
(* exactly when keypad mode is off.                                        *)
(***************************************************************************)
C4_ToggleStep ==
    state'.numlock # state.numlock =>
        /\ Len(cmds') = 2
        /\ cmds'[1] = [op |-> "set_brightness",
                       arg |-> IF state'.numlock THEN state.brightness
                                                 ELSE Zero]
        /\ cmds'[2] = [op |-> "grab", arg |-> state'.numlock]
        /\ state.brightness # Zero

C4_InStep ==
    /\ [](pc = "running" => (grabbed <=> state.numlock))
    /\ [](everToggled => (touchpad_i2c = <<Zero>> <=> ~state.numlock))
    /\ [][C4_ToggleStep]_vars

\* keypad mode has just been switched off again
C4_Witness ==
    /\ IsTick /\ Toggled(cmds) /\ pc = "running"
    /\ ~state.numlock /\ ~grabbed /\ touchpad_i2c = <<Zero>>

(***************************************************************************)
(* C5. In a touch that began inside the toggle box, a tick processed while *)
(* the coordinate is outside the box sets the suppression flag and does    *)
(* not toggle, and nothing toggles for the rest of that touch.             *)
(***************************************************************************)
C5_TickOutside ==
    (Touched /\ touch.inBoxAtBegin /\ IsTick' /\ ~InBox) =>
        /\ state'.tapped_outside_numlock_bbox
        /\ state'.numlock = state.numlock
        /\ ~Toggled(cmds')

C5_RestOfTouch ==
    (Touched /\ touch.inBoxAtBegin /\ touch.tickedOutside) =>
        /\ state'.numlock = state.numlock
        /\ ~Toggled(cmds')

C5_LeftBox == [][C5_TickOutside /\ C5_RestOfTouch]_vars

\* back inside the box, a tick past the hold duration has toggled nothing
C5_Witness ==
    /\ Touched /\ touch.inBoxAtBegin /\ touch.tickedOutside
    /\ InBox /\ IsTick /\ SinceTapStart >= HoldMicros
    /\ touch.toggles = 0 /\ cmds = <<>>

(***************************************************************************)
(* C6. A composite key is pressed by one multi_keydown carrying all its    *)
(* codes and released by one multi_keyup carrying the same codes, a simple *)
(* key by keydown and keyup; so with FingerState = Lifted the emitter      *)
(* holds no key code.                                                      *)
(***************************************************************************)
C6_EmitStep ==
    \A i \in KeyCmds(cmds') :
        LET c   == cmds'[i]
            key == IF c.op \in DownOps THEN state'.cur_key ELSE state.cur_key
        IN  /\ key # None
            /\ c.arg = CodesOf(key)
            /\ c.op \in {"multi_keydown", "multi_keyup"} <=> needs_multikey(key)
            /\ c.op \in UpOps => c.arg = touch.downCodes

C6_Composite ==
    /\ [](state.finger_state = "Lifted" => dummy_kb = {})
    /\ [][cmds' # <<>> => C6_EmitStep]_vars

\* the composite key has just been released
C6_Witness ==
    /\ IsContactEnd /\ state.finger_state = "Lifted"
    /\ cmds = <<[op |-> "multi_keyup", arg |-> <<"KEY_LEFTSHIFT", "KEY_5">>]>>
    /\ touch.downCodes = <<"KEY_LEFTSHIFT", "KEY_5">>
    /\ dummy_kb = {}

(***************************************************************************)
(* C7. At most one toggle per physical touch; the suppression flag is      *)
(* cleared only by a contact-begin processed while Lifted.                 *)
(***************************************************************************)
C7_FlagCleared ==
    (state.tapped_outside_numlock_bbox /\ ~state'.tapped_outside_numlock_bbox)
        => (IsContactBegin' /\ state.finger_state = "Lifted")

C7_OneToggle ==
    /\ [](touch.toggles <= 1)
    /\ [][C7_FlagCleared]_vars

\* after the toggle of this touch, a later tick inside the box did nothing
C7_Witness ==
    /\ Touched /\ touch.toggles = 1 /\ touch.stayedInBox
    /\ IsTick /\ cmds = <<>> /\ SinceTapStart > HoldMicros

(***************************************************************************)
(* C8. elapsed_since(later, earlier), for later >= earlier and sub-second  *)
(* parts in [0, 1000000): the exact difference, with a sub-second part in  *)
(* [0, 1000000), a second borrowed exactly when later.usec < earlier.usec, *)
(* a non-negative whole-second part, and (0, 0) for equal operands.        *)
(***************************************************************************)
C8_ElapsedExact ==
    (calc.done /\ TvGe(calc.later, calc.earlier)) =>
        /\ Micros(calc.result) = Micros(calc.later) - Micros(calc.earlier)
        /\ calc.result.tv_usec >= 0
        /\ calc.result.tv_usec < USEC_PER_SEC
        /\ calc.result.tv_sec >= 0
        /\ calc.result.tv_sec =
              IF calc.later.tv_usec < calc.earlier.tv_usec
              THEN calc.later.tv_sec - calc.earlier.tv_sec - 1
              ELSE calc.later.tv_sec - calc.earlier.tv_sec
        /\ calc.later = calc.earlier =>
              calc.result = [tv_sec |-> 0, tv_usec |-> 0]

\* the borrow case: (1 s, 100000 us) - (0 s, 900000 us) = (0 s, 200000 us)
C8_Witness ==
    /\ calc.done
    /\ calc.earlier = [tv_sec |-> 0, tv_usec |-> 900000]
    /\ calc.later = [tv_sec |-> 1, tv_usec |-> 100000]
    /\ calc.result = [tv_sec |-> 0, tv_usec |-> 200000]

(***************************************************************************)
(* C9. A failed read of the event stream.  As stated it ends the loop      *)
(* (C9_ReadFailureFatal).  What the loop does: the failed read changes     *)
(* nothing and issues nothing, and the loop keeps running                  *)
(* (C9_ReadFailureSkipped).                                                *)
(***************************************************************************)
C9_ReadFailureFatal == readFailed => pc # "running"

C9_ReadFailureSkipped ==
    [][ev'.kind = "ReadError" =>
          /\ UNCHANGED <<state, dummy_kb, touchpad_i2c, grabbed, clock>>
          /\ cmds' = <<>>
          /\ pc' = "running"]_vars

\* after a failed read, a later tick was processed and toggled keypad mode
C9_Witness ==
    /\ readFailed /\ IsTick /\ Toggled(cmds) /\ pc = "running"

(***************************************************************************)
(* C10. An event of an unrecognized kind.  As stated it changes nothing    *)
(* and issues nothing (C10_OtherIsNoOp).  What happens: its match arm does *)
(* nothing, but the code after the match still runs, so with keypad mode   *)
(* on, FingerState = Touching and a mapped key under the coordinate it     *)
(* presses that key; in every other state it changes nothing               *)
(* (C10_OtherOnlyResolves).                                                *)
(***************************************************************************)
C10_OtherIsNoOp ==
    [][ev'.kind = "Other" => (state' = state /\ cmds' = <<>>)]_vars

C10_OtherStep ==
    LET key == get_key(state.posx, state.posy)
    IN  /\ UNCHANGED <<touchpad_i2c, grabbed, pc>>
        /\ IF state.numlock /\ state.finger_state = "Touching" /\ key # None
           THEN /\ state' = [state EXCEPT !.finger_state = "Tapping",
                                          !.cur_key = key]
                /\ Len(cmds') = 1
                /\ cmds'[1].op \in DownOps
                /\ cmds'[1].arg = CodesOf(key)
                /\ dummy_kb' = dummy_kb \cup SeqSet(CodesOf(key))
           ELSE state' = state /\ cmds' = <<>> /\ dummy_kb' = dummy_kb

C10_OtherOnlyResolves == [][ev'.kind = "Other" => C10_OtherStep]_vars

\* an unrecognized event has just pressed KP7
C10_Witness ==
    /\ ev.kind = "Other"
    /\ cmds = <<[op |-> "keydown", arg |-> <<"KEY_KP7">>]>>
    /\ state.cur_key = "KEY_KP7" /\ state.finger_state = "Tapping"

(***************************************************************************)
(* C11. The keypad-mode flag, the grab and the illumination change only    *)
(* through the toggle operation: a position sample, a contact-begin or a   *)
(* contact-end never changes them; only a tick can.                        *)
(***************************************************************************)
ModeChanged ==
    \/ state'.numlock # state.numlock
    \/ grabbed' # grabbed
    \/ touchpad_i2c' # touchpad_i2c

C11_OnlyTickToggles ==
    [][/\ ev'.kind \in {"PosX", "PosY", "Finger"} => ~ModeChanged
       /\ ModeChanged => (IsTick' /\ Toggled(cmds'))]_vars

\* with keypad mode on, a touch inside the toggle box has just ended
C11_Witness ==
    /\ IsContactEnd /\ InBox /\ touch.inBoxAtBegin
    /\ state.numlock /\ grabbed /\ touchpad_i2c = <<Half>>

(***************************************************************************)
(* C12. The active key is set only while FingerState = Tapping; it becomes *)
(* set only by a successful layout lookup of the code after the match; it  *)
(* is cleared only by a contact-end, which emits exactly one key-up for it *)
(* and sets FingerState = Lifted.                                          *)
(***************************************************************************)
C12_KeySet ==
    (state.cur_key = None /\ state'.cur_key # None) =>
        /\ state.numlock
        /\ ev'.kind \notin {"PosX", "PosY", "ReadError"}
        /\ state'.cur_key = get_key(state'.posx, state'.posy)
        /\ state'.finger_state = "Tapping"
        /\ Len(cmds') = 1
        /\ cmds'[1].op \in DownOps
        /\ cmds'[1].arg = CodesOf(state'.cur_key)

C12_KeyCleared ==
    (state.cur_key # None /\ state'.cur_key # state.cur_key) =>
        /\ IsContactEnd'
        /\ state'.cur_key = None
        /\ state'.finger_state = "Lifted"
        /\ Len(cmds') = 1
        /\ cmds'[1].op \in UpOps
        /\ cmds'[1].arg = CodesOf(state.cur_key)

C12_ActiveKey ==
    /\ [](state.cur_key # None => state.finger_state = "Tapping")
    /\ [][C12_KeySet /\ C12_KeyCleared]_vars

\* a tick has just resolved the touch to the key under the box
C12_Witness ==
    /\ IsTick
    /\ state.cur_key = "KEY_BACKSPACE" /\ state.finger_state = "Tapping"
    /\ dummy_kb = {"KEY_BACKSPACE"}

(***************************************************************************)
(* C13. A touch whose contact-begin (from Lifted) found the coordinate     *)
(* outside the toggle box never toggles before its contact-end, wherever   *)
(* the coordinate moves and however long it lasts.                         *)
(***************************************************************************)
C13_BeganOutside ==
    [][(Touched /\ ~touch.inBoxAtBegin) =>
          (~Toggled(cmds') /\ state'.numlock = state.numlock)]_vars

\* such a touch, moved into the box and held there past the hold duration
C13_Witness ==
    /\ Touched /\ ~touch.inBoxAtBegin
    /\ InBox /\ state.finger_state = "Tapping" /\ state.cur_key = None
    /\ IsTick /\ SinceTapStart >= HoldMicros
    /\ touch.toggles = 0

(***************************************************************************)
(* C14. Presence inside the toggle box before a toggle.  As stated, the    *)
(* coordinate has been inside the box after every position sample since    *)
(* the contact-begin (C14_InsideAfterEverySample).  What holds: it was     *)
(* inside the box at the contact-begin, at every tick processed since and  *)
(* at the toggling tick; position samples between two ticks are not        *)
(* examined (C14_InsideAtEveryTick).                                       *)
(***************************************************************************)
C14_InsideAfterEverySample == [][Toggled(cmds') => touch.stayedInBox]_vars

C14_InsideAtEveryTick ==
    [][Toggled(cmds') =>
          /\ IsTick' /\ Touched
          /\ touch.inBoxAtBegin
          /\ ~touch.tickedOutside
          /\ InBox]_vars

\* a toggle by a touch that left the box and came back between two ticks
C14_Witness ==
    /\ IsTick /\ Toggled(cmds)
    /\ touch.inBoxAtBegin /\ ~touch.tickedOutside /\ ~touch.stayedInBox

(***************************************************************************)
(* C15. The states in which a tick is acted upon.  As stated, keypad mode  *)
(* has to be off: with keypad mode on no tick toggles or changes the       *)
(* suppression flag (C15_NoTickActionInKeypadMode).  What holds: the tick  *)
(* arm acts exactly when FingerState = Tapping and the suppression flag is *)
(* clear, whatever the keypad mode; with keypad mode on it then sets the   *)
(* flag outside the box and toggles keypad mode off once the hold duration *)
(* has elapsed inside it (C15_TickActsWhenTappingUnsuppressed).            *)
(***************************************************************************)
Flag == state.tapped_outside_numlock_bbox

C15_NoTickActionInKeypadMode ==
    [][(IsTick' /\ state.numlock) =>
          (~Toggled(cmds') /\ Flag' = Flag)]_vars

C15_TickStep ==
    IF state.finger_state = "Tapping" /\ ~Flag
    THEN IF ~InBox
         THEN Flag' /\ ~Toggled(cmds')
         ELSE IF Micros(clock') - Micros(state.tap_started_at) >= HoldMicros
              THEN Toggled(cmds') /\ state'.numlock = ~state.numlock
              ELSE ~Toggled(cmds') /\ ~Flag'
    ELSE ~Toggled(cmds') /\ Flag' = Flag /\ state'.numlock = state.numlock

C15_TickActsWhenTappingUnsuppressed == [][IsTick' => C15_TickStep]_vars

\* a tick has just switched keypad mode off
C15_Witness ==
    /\ IsTick /\ Toggled(cmds) /\ touch.numlockAtBegin
    /\ ~state.numlock /\ Flag /\ state.finger_state = "Tapping"

(***************************************************************************)
(* C16. Keypad mode on, a touch beginning (from Lifted) at a coordinate    *)
(* that is inside the toggle box and over a mapped key.  As stated, the    *)
(* contact-begin resolves it to that key, so holding it never toggles      *)
(* (C16_ResolvedToKey).  What holds: the contact-begin sets Tapping before *)
(* the lookup, so the touch presses no key, and holding it inside the box  *)
(* for the hold duration toggles keypad mode off (C16_BoxWinsOverKey).     *)
(***************************************************************************)
BeganOnBoxKey ==
    /\ touch.numlockAtBegin
    /\ touch.inBoxAtBegin
    /\ touch.keyAtBegin # None

JustBegan == IsContactBegin /\ Touched /\ touch.quiet

C16_ResolvedToKey ==
    (JustBegan /\ BeganOnBoxKey) =>
        /\ state.cur_key = touch.keyAtBegin
        /\ touch.downs = 1

C16_HoldStep ==
    (/\ Touched /\ BeganOnBoxKey /\ touch.stayedInBox /\ touch.toggles = 0
     /\ IsTick'
     /\ Micros(clock') - Micros(state.tap_started_at) >= HoldMicros) =>
        /\ Toggled(cmds')
        /\ ~state'.numlock

C16_BoxWinsOverKey ==
    /\ []((JustBegan /\ BeganOnBoxKey) =>
             /\ state.finger_state = "Tapping"
             /\ state.cur_key = None)
    /\ []((Touched /\ BeganOnBoxKey) => touch.downs = 0)
    /\ [][C16_HoldStep]_vars

\* held over BACKSPACE inside the box, the touch has switched keypad mode off
C16_Witness ==
    /\ Touched /\ BeganOnBoxKey /\ touch.keyAtBegin = "KEY_BACKSPACE"
    /\ IsTick /\ Toggled(cmds) /\ ~state.numlock
    /\ touch.downs = 0 /\ touch.toggles = 1

(***************************************************************************)
(* C17. A contact-begin processed while FingerState is Touching or         *)
(* Tapping.  As stated it leaves FingerState, the suppression flag,        *)
(* tap-start, the active key and the keypad-mode flag unchanged            *)
(* (C17_RepeatedBeginNoOp).  What holds: it leaves tap-start and the       *)
(* keypad-mode flag unchanged and clears neither the suppression flag nor  *)
(* the active key, but the box test still runs (Tapping inside the box,    *)
(* suppression flag set outside it) and so does the code after the match,  *)
(* which may resolve a key (C17_RepeatedBeginKeepsTapStart).               *)
(***************************************************************************)
C17_RepeatedBeginNoOp ==
    [][(IsContactBegin' /\ Touched) =>
          /\ state'.finger_state = state.finger_state
          /\ Flag' = Flag
          /\ state'.tap_started_at = state.tap_started_at
          /\ state'.cur_key = state.cur_key
          /\ state'.numlock = state.numlock]_vars

C17_RepeatedBeginStep ==
    LET key == get_key(state.posx, state.posy)
        resolves == /\ state.numlock /\ state.finger_state = "Touching"
                    /\ ~InBox /\ key # None
    IN  /\ state'.tap_started_at = state.tap_started_at
        /\ state'.numlock = state.numlock
        /\ ~Toggled(cmds')
        /\ Flag => Flag'
        /\ state.cur_key # None => state'.cur_key = state.cur_key
        /\ IF InBox
           THEN /\ state'.finger_state = "Tapping"
                /\ Flag' = Flag
                /\ state'.cur_key = state.cur_key
           ELSE /\ Flag'
                /\ IF resolves
                   THEN /\ state'.finger_state = "Tapping"
                        /\ state'.cur_key = key
                   ELSE /\ state'.finger_state = state.finger_state
                        /\ state'.cur_key = state.cur_key

C17_RepeatedBeginKeepsTapStart ==
    [][(IsContactBegin' /\ Touched) => C17_RepeatedBeginStep]_vars

\* a second contact-begin, inside the box, has turned Touching into Tapping
C17_Witness ==
    /\ IsContactBegin /\ ~touch.inBoxAtBegin /\ InBox
    /\ state.finger_state = "Tapping" /\ state.cur_key = None
    /\ Micros(clock) > Micros(state.tap_started_at)

(***************************************************************************)
(* C18. When the key lookup runs.  As stated it runs after every event,    *)
(* position samples included, so no state with keypad mode on, FingerState *)
(* = Touching and a mapped key under the coordinate is left behind by an   *)
(* event (C18_NoUnresolvedKey).  What holds: it runs after every contact   *)
(* sample, tick and unrecognized event but not after a position sample,    *)
(* which only stores its coordinate; such a state is left behind by        *)
(* position samples only, and lasts until the next event of another kind   *)
(* (C18_UnresolvedOnlyAfterPosition).                                      *)
(***************************************************************************)
Unresolved ==
    /\ state.numlock
    /\ state.finger_state = "Touching"
    /\ get_key(state.posx, state.posy) # None

C18_NoUnresolvedKey == ~Unresolved

C18_PositionStep ==
    /\ cmds' = <<>>
    /\ \/ ev'.kind = "PosX" /\ state' = [state EXCEPT !.posx = ev'.value]
       \/ ev'.kind = "PosY" /\ state' = [state EXCEPT !.posy = ev'.value]

C18_UnresolvedOnlyAfterPosition ==
    /\ [](Unresolved => ev.kind \in {"PosX", "PosY", "ReadError"})
    /\ [][ev'.kind \in {"PosX", "PosY"} => C18_PositionStep]_vars
    /\ [][(Unresolved /\ ev'.kind \in {"Finger", "Timestamp", "Other"}) =>
             ~Unresolved']_vars

\* moved onto KEY_5 by position samples, the touch is resolved by a tick
C18_Witness ==
    /\ IsTick /\ touch.keyAtBegin = None /\ ~touch.inBoxAtBegin
    /\ cmds = <<[op |-> "multi_keydown", arg |-> <<"KEY_LEFTSHIFT", "KEY_5">>]>>
    /\ state.cur_key = "KEY_5"

(***************************************************************************)
(* C19. No key is held or emitted in pointing mode: an active key implies  *)
(* keypad mode on and the suppression flag set, no toggle fires while a    *)
(* key is pressed, and every key-down and key-up is emitted with keypad    *)
(* mode on and the device grabbed.                                         *)
(***************************************************************************)
C19_EmitStep ==
    /\ KeyCmds(cmds') # {} =>
          /\ state.numlock /\ state'.numlock
          /\ grabbed /\ grabbed'
    /\ (state.cur_key # None \/ dummy_kb # {}) => ~Toggled(cmds')

C19_NoKeyInPointingMode ==
    /\ [](state.cur_key # None => (state.numlock /\ Flag /\ grabbed))
    /\ [](dummy_kb # {} => state.numlock)
    /\ [][C19_EmitStep]_vars

\* KP7 is held; a tick past the hold duration has not toggled
C19_Witness ==
    /\ state.cur_key = "KEY_KP7" /\ dummy_kb = {"KEY_KP7"}
    /\ IsTick /\ SinceTapStart >= HoldMicros /\ cmds = <<>>
    /\ state.numlock /\ grabbed

(***************************************************************************)
(* C20. A physical touch never both toggles and presses a key: a touch     *)
(* that began inside the toggle box emits no key-down before its           *)
(* contact-end, also after it has switched keypad mode on, because         *)
(* FingerState reaches Touching only from Lifted.                          *)
(***************************************************************************)
C20_ToTouching ==
    (state.finger_state # "Touching" /\ state'.finger_state = "Touching") =>
        (state.finger_state = "Lifted" /\ IsContactBegin')

C20_ToggleOrKey ==
    /\ [](touch.toggles = 0 \/ touch.downs = 0)
    /\ [](touch.inBoxAtBegin => touch.downs = 0)
    /\ [][C20_ToTouching]_vars

\* the touch switched keypad mode on over BACKSPACE; later events press nothing
C20_Witness ==
    /\ Touched /\ touch.inBoxAtBegin /\ touch.toggles = 1 /\ state.numlock
    /\ ev.kind = "Other" /\ get_key(state.posx, state.posy) = "KEY_BACKSPACE"
    /\ touch.downs = 0 /\ dummy_kb = {}

====
